---------------------------- MODULE Spec2Model ----------------------------
(***************************************************************************)
(* Script Manager (src/app.py): a Tk front end over a scripts directory,   *)
(* an environments directory, a JSON file of last-run times and pyenv.     *)
(*                                                                         *)
(* Text is modelled as a sequence of one-character strings, so that        *)
(* str.startswith, str.strip, "x in s" and packaging.version.parse are     *)
(* computed on the characters, as the code computes them.                  *)
(***************************************************************************)
EXTENDS Integers, Sequences, FiniteSets, TLC

(***************************************************************************)
(* Bounds of the model.                                                    *)
(***************************************************************************)
\* longest `pyenv install --list` output (in lines) that is enumerated
MaxLines == 3

\* how many different script names the user types
NumScripts == 2

\* the clock stops advancing at this value of time.time()
MaxTime == 2

\* background threads alive at once
MaxThreads == 2

(***************************************************************************)
(* Characters and text helpers.                                            *)
(***************************************************************************)
Digits == {"0", "1", "2", "3", "4", "5", "6", "7", "8", "9"}

Whitespace == {" ", "\n", "\t"}

Separators == {".", "-", "_"}

DigitVal(c) ==
    CASE c = "0" -> 0 [] c = "1" -> 1 [] c = "2" -> 2 [] c = "3" -> 3
      [] c = "4" -> 4 [] c = "5" -> 5 [] c = "6" -> 6 [] c = "7" -> 7
      [] c = "8" -> 8 [] c = "9" -> 9

\* s[i:] of Python
From(s, i) == SubSeq(s, i, Len(s))

\* s.startswith(p)
StartsWith(s, p) == Len(p) <= Len(s) /\ SubSeq(s, 1, Len(p)) = p

\* s.endswith(p)
EndsWith(s, p) == Len(p) <= Len(s) /\ SubSeq(s, Len(s) - Len(p) + 1, Len(s)) = p

\* p in s  (substring test)
Contains(s, p) == \E i \in 1..(Len(s) + 1) : StartsWith(From(s, i), p)

\* s.strip(): leading and trailing whitespace removed
Strip(s) ==
    LET keep == {i \in 1..Len(s) : s[i] \notin Whitespace}
    IN  IF keep = {} THEN <<>>
        ELSE LET lo == CHOOSE i \in keep : \A j \in keep : i <= j
                 hi == CHOOSE i \in keep : \A j \in keep : j <= i
             IN  SubSeq(s, lo, hi)

(***************************************************************************)
(* packaging.version.parse, for the PEP 440 forms pyenv lists:             *)
(*     [v] N(.N)* [[sep](a|b|c|rc)[sep][N]] [[sep]dev[sep][N]]             *)
(* Anything else raises InvalidVersion (packaging >= 22; the code's        *)
(* `except version.InvalidVersion` is written for it).  Epochs, post       *)
(* releases and local versions do not occur in pyenv's list and are        *)
(* rejected here like any other unparsable text.                           *)
(***************************************************************************)
\* index just past the run of digits that starts at i
NumEnd(s, i) ==
    CHOOSE j \in i..(Len(s) + 1) :
        /\ \A k \in i..(j - 1) : s[k] \in Digits
        /\ (j = Len(s) + 1 \/ s[j] \notin Digits)

RECURSIVE NumVal(_)
NumVal(ds) ==
    IF ds = <<>> THEN 0
    ELSE 10 * NumVal(SubSeq(ds, 1, Len(ds) - 1)) + DigitVal(ds[Len(ds)])

\* the release segment N(.N)* starting at i: [rel |-> numbers, next |-> index after]
RECURSIVE ReleaseFrom(_, _)
ReleaseFrom(s, i) ==
    LET j == NumEnd(s, i)
        n == NumVal(SubSeq(s, i, j - 1))
    IN  IF j + 1 <= Len(s) /\ s[j] = "." /\ s[j + 1] \in Digits
        THEN LET rest == ReleaseFrom(s, j + 1)
             IN  [rel |-> <<n>> \o rest.rel, next |-> rest.next]
        ELSE [rel |-> <<n>>, next |-> j]

\* an optional separator at i: the index after it
SkipSep(s, i) == IF i <= Len(s) /\ s[i] \in Separators THEN i + 1 ELSE i

\* an optional run of digits at i: the index after it
SkipNum(s, i) == IF i <= Len(s) /\ s[i] \in Digits THEN NumEnd(s, i) ELSE i

PreLabels == {<<"r", "c">>, <<"a">>, <<"b">>, <<"c">>}

\* an optional pre-release segment at i: [found, next]
PreFrom(s, i) ==
    LET k == SkipSep(s, i)
        labels == {l \in PreLabels : StartsWith(From(s, k), l)}
    IN  IF labels = {} THEN [found |-> FALSE, next |-> i]
        ELSE LET l == CHOOSE x \in labels : \A y \in labels : Len(y) <= Len(x)
             IN  [found |-> TRUE, next |-> SkipNum(s, SkipSep(s, k + Len(l)))]

\* an optional dev segment at i: [found, next]
DevFrom(s, i) ==
    LET k == SkipSep(s, i)
    IN  IF StartsWith(From(s, k), <<"d", "e", "v">>)
        THEN [found |-> TRUE, next |-> SkipNum(s, SkipSep(s, k + 3))]
        ELSE [found |-> FALSE, next |-> i]

InvalidVersion == [valid |-> FALSE, release |-> <<>>, pre |-> FALSE, dev |-> FALSE]

version_parse(text) ==
    LET s == Strip(text)
        i == IF s # <<>> /\ s[1] = "v" THEN 2 ELSE 1
    IN  IF i > Len(s) \/ s[i] \notin Digits THEN InvalidVersion
        ELSE LET r == ReleaseFrom(s, i)
                 p == PreFrom(s, r.next)
                 d == DevFrom(s, p.next)
             IN  IF d.next # Len(s) + 1 THEN InvalidVersion
                 ELSE [valid |-> TRUE, release |-> r.rel,
                       pre |-> p.found, dev |-> d.found]

\* Version.is_prerelease: a dev release counts as a pre-release
is_prerelease(v) == v.pre \/ v.dev

is_devrelease(v) == v.dev

\* the release with its trailing zeros dropped, as Version._key compares it
RECURSIVE StripZeros(_)
StripZeros(rel) ==
    IF rel # <<>> /\ rel[Len(rel)] = 0
    THEN StripZeros(SubSeq(rel, 1, Len(rel) - 1))
    ELSE rel

\* tuple comparison a < b
RECURSIVE TupleLess(_, _)
TupleLess(a, b) ==
    IF b = <<>> THEN FALSE
    ELSE IF a = <<>> THEN TRUE
    ELSE IF a[1] # b[1] THEN a[1] < b[1]
    ELSE TupleLess(Tail(a), Tail(b))

\* version.parse(a) < version.parse(b), for final releases (no pre, no dev)
VersionLess(a, b) ==
    TupleLess(StripZeros(version_parse(a).release), StripZeros(version_parse(b).release))

(***************************************************************************)
(* Text constants, spelled out in characters.                              *)
(***************************************************************************)
\* "Anaconda"
ANACONDA == <<"A", "n", "a", "c", "o", "n", "d", "a">>

\* "Stackless"
STACKLESS == <<"S", "t", "a", "c", "k", "l", "e", "s", "s">>

\* "Miniconda"
MINICONDA == <<"M", "i", "n", "i", "c", "o", "n", "d", "a">>

\* "MicroPython"
MICROPYTHON == <<"M", "i", "c", "r", "o", "P", "y", "t", "h", "o", "n">>

\* "  3.9.1"
L_3_9_1 == <<" ", " ", "3", ".", "9", ".", "1">>

\* "  3.10.0"
L_3_10_0 == <<" ", " ", "3", ".", "1", "0", ".", "0">>

\* "  3.10"
L_3_10 == <<" ", " ", "3", ".", "1", "0">>

\* "  3.11.0rc1"
L_3_11_0rc1 == <<" ", " ", "3", ".", "1", "1", ".", "0", "r", "c", "1">>

\* "  3.12-dev"
L_3_12_dev == <<" ", " ", "3", ".", "1", "2", "-", "d", "e", "v">>

\* "  2.7.18"
L_2_7_18 == <<" ", " ", "2", ".", "7", ".", "1", "8">>

\* "  pypy3.9-7.3"
L_pypy == <<" ", " ", "p", "y", "p", "y", "3", ".", "9", "-", "7", ".", "3">>

\* "# 3.9"
L_comment == <<"#", " ", "3", ".", "9">>

\* "  3-Anaconda"
L_Anaconda == <<" ", " ", "3", "-", "A", "n", "a", "c", "o", "n", "d", "a">>

\* "3"
P_3 == <<"3">>

\* "3.1"
P_3_1 == <<"3", ".", "1">>

\* "3.9"
P_3_9 == <<"3", ".", "9">>

\* "2"
P_2 == <<"2">>

\* "python3"
P_python3 == <<"p", "y", "t", "h", "o", "n", "3">>


(***************************************************************************)
(* State.                                                                  *)
(***************************************************************************)
VARIABLES
    system,           \* platform.system()
    pyenv,            \* the pyenv installation: [status, lines of `pyenv install --list`]
    scripts_dir,      \* SCRIPTS_DIR: script name -> its directory
    envs_dir,         \* ENVS_DIR: script name -> its virtual environment
    archived_scripts, \* BASE_DIR/archived_scripts: script name -> nesting of the directory
    archived_envs,    \* BASE_DIR/archived_environments: likewise
    metadata_file,    \* METADATA_FILE: the JSON text, or NoFile
    script_metadata,  \* the dict script_metadata
    now,              \* time.time()
    rows,             \* the rows packed into list_frame, top to bottom
    run_buttons,      \* the dict run_buttons: script name -> state of its Run button
    content_windows,  \* open add-script windows: the closures of save_inputs
    req_windows,      \* open Modify Requirements windows: the closures of save_changes
    status,           \* text of progress_label
    dialog,           \* the modal dialog a handler of the UI thread is waiting in
    threads,          \* background threads: slot -> thread
    afterq,           \* callbacks queued with root.after(0, ...), oldest first
    last,             \* the handler that ran last and how it ended
    prefix,           \* the argument of a lone get_latest_available_python_version call
    latest,           \* what that call returned or raised
    ran               \* history: the scripts run since their directory was created

vars == <<system, pyenv, scripts_dir, envs_dir, archived_scripts, archived_envs,
          metadata_file, script_metadata, now, rows, run_buttons, content_windows,
          req_windows, status, dialog, threads, afterq, last, prefix, latest, ran>>

Systems == {"Windows", "Darwin", "Linux", "Other"}

(***************************************************************************)
(* Results of calls that may raise: a value, or an exception with the      *)
(* pieces its message is formatted from (an f-string keeps the text of     *)
(* the exception it embeds, so `phrase in message` is decided on pieces).  *)
(***************************************************************************)
Return(v) == [ok |-> TRUE, value |-> v, exc |-> "", msg |-> <<>>]

Raise(e, m) == [ok |-> FALSE, value |-> <<>>, exc |-> e, msg |-> m]

NoCall == [ok |-> FALSE, value |-> <<>>, exc |-> "", msg |-> <<>>]

(***************************************************************************)
(* get_available_python_versions (lines 107-149).                          *)
(***************************************************************************)
Keywords == {ANACONDA, STACKLESS, MINICONDA, MICROPYTHON}

\* the cleaning loop of lines 135-146 over the lines still to be read
RECURSIVE CleanVersions(_)
CleanVersions(lines) ==
    IF lines = <<>> THEN <<>>
    ELSE LET v == Strip(lines[1])
         IN  IF v = <<>> \/ StartsWith(v, <<"#">>) THEN CleanVersions(Tail(lines))
             ELSE IF \E keyword \in Keywords : Contains(v, keyword)
                  THEN CleanVersions(Tail(lines))
             ELSE <<v>> \o CleanVersions(Tail(lines))

\* subprocess.run of a pyenv command: with shell=True (Windows) a missing pyenv
\* is a non-zero exit status of the shell, without it a FileNotFoundError
PyenvRun(sys, env) ==
    IF env.status = "ok" THEN "ok"
    ELSE IF env.status = "missing" /\ sys # "Windows" THEN "FileNotFoundError"
    ELSE "nonzero"

get_available_python_versions(sys, env) ==
    LET run == PyenvRun(sys, env)
    IN  IF run = "FileNotFoundError"
        THEN Raise("RuntimeError",
                   <<"Error fetching available Python versions: ",
                     "[Errno 2] No such file or directory: 'pyenv'">>)
        ELSE IF run = "nonzero"
        THEN Raise("RuntimeError",
                   <<"Error fetching available Python versions: ",
                     "Failed to get available Python versions.", "STDERR">>)
        ELSE Return(CleanVersions(env.lines))

(***************************************************************************)
(* get_latest_available_python_version (lines 152-180).                    *)
(***************************************************************************)
\* line 157
MatchingVersions(versions, p) == SelectSeq(versions, LAMBDA v : StartsWith(v, p))

IsStable(v) ==
    LET parsed_version == version_parse(v)
    IN  /\ parsed_version.valid
        /\ ~is_prerelease(parsed_version)
        /\ ~is_devrelease(parsed_version)

\* lines 162-170
StableVersions(matching_versions) == SelectSeq(matching_versions, IsStable)

\* list.sort(key=version.parse): stable, ascending.  Insert x after the
\* elements that are not greater than it.
RECURSIVE InsertVersion(_, _)
InsertVersion(sorted, x) ==
    IF sorted = <<>> THEN <<x>>
    ELSE IF VersionLess(x, sorted[1]) THEN <<x>> \o sorted
    ELSE <<sorted[1]>> \o InsertVersion(Tail(sorted), x)

RECURSIVE SortVersions(_)
SortVersions(vs) ==
    IF vs = <<>> THEN <<>>
    ELSE InsertVersion(SortVersions(SubSeq(vs, 1, Len(vs) - 1)), vs[Len(vs)])

\* the first element of the sorted list instead of the last
OldestOf(stable_versions) == SortVersions(stable_versions)[1]

\* lines 176-178: the last of the sorted list
LatestOf(stable_versions) ==
    LET sorted == SortVersions(stable_versions) IN sorted[Len(sorted)]

\* a query that falls back on the pre-releases when no stable version matches
get_latest_including_prereleases(sys, env, p) ==
    LET versions == get_available_python_versions(sys, env)
    IN  IF ~versions.ok
        THEN Raise("RuntimeError",
                   <<"Error finding latest Python version matching: ">> \o versions.msg)
        ELSE LET matching_versions == MatchingVersions(versions.value, p)
                 stable_versions == StableVersions(matching_versions)
             IN  IF matching_versions = <<>>
                 THEN Raise("RuntimeError",
                            <<"Error finding latest Python version matching: ",
                              "No available Python versions found matching">>)
                 ELSE IF stable_versions = <<>>
                 THEN Return(LatestOf(matching_versions))
                 ELSE Return(LatestOf(stable_versions))

get_latest_available_python_version(sys, env, p) ==
    LET versions == get_available_python_versions(sys, env)
    IN  IF ~versions.ok
        THEN Raise("RuntimeError",
                   <<"Error finding latest Python version matching: ">> \o versions.msg)
        ELSE LET matching_versions == MatchingVersions(versions.value, p)
                 stable_versions == StableVersions(matching_versions)
             IN  IF matching_versions = <<>>
                 THEN \* the ValueError of line 159, re-raised by line 180
                      Raise("RuntimeError",
                            <<"Error finding latest Python version matching: ",
                              "No available Python versions found matching">>)
                 ELSE IF stable_versions = <<>>
                 THEN \* the ValueError of line 173, re-raised by line 180
                      Raise("RuntimeError",
                            <<"Error finding latest Python version matching: ",
                              "No stable Python versions found matching">>)
                 ELSE Return(LatestOf(stable_versions))

(***************************************************************************)
(* Inputs: the lines pyenv may print and the prefixes a user may type.     *)
(***************************************************************************)
PyenvLines ==
    { L_3_9_1, L_3_10_0, L_3_10, L_3_11_0rc1, L_3_12_dev, L_2_7_18,
      L_pypy, L_comment, L_Anaconda, <<>> }

Prefixes == { P_3, P_3_1, P_3_9, P_2, P_python3 }

RECURSIVE SeqsUpTo(_, _)
SeqsUpTo(S, n) ==
    IF n = 0 THEN {<<>>}
    ELSE LET shorter == SeqsUpTo(S, n - 1)
         IN  shorter \cup {Append(q, x) : q \in {r \in shorter : Len(r) = n - 1}, x \in S}


(***************************************************************************)
(* The disk.                                                               *)
(***************************************************************************)
Names == 1..NumScripts

FileNames == {"main.py", "requirements.txt", ".env"}

\* what pip can be asked to install
Packages == {"requests"}

\* a directory SCRIPTS_DIR/<name>: its files, and what requirements.txt lists
NoDir == [exists |-> FALSE, files |-> {}, req |-> {}]

EmptyDir == [exists |-> TRUE, files |-> {}, req |-> {}]

\* a directory ENVS_DIR/<name>: `complete` once `python -m venv` has finished
\* in it (bin/python and bin/pip are there), pkgs what pip has installed
NoEnv == [exists |-> FALSE, complete |-> FALSE, pkgs |-> {}]

NewEnv == [exists |-> TRUE, complete |-> TRUE, pkgs |-> {}]

PartialEnv == [exists |-> TRUE, complete |-> FALSE, pkgs |-> {}]

NoFile == [exists |-> FALSE, text |-> <<>>]

FileWith(text) == [exists |-> TRUE, text |-> text]

(***************************************************************************)
(* script_metadata and its JSON file (lines 25-31, 60-63).  json.dump      *)
(* writes one "key": value pair per key; json.load builds the dict back    *)
(* from the pairs, a later pair for a key replacing an earlier one.        *)
(***************************************************************************)
RECURSIVE DumpKeys(_, _)
DumpKeys(md, keys) ==
    IF keys = {} THEN <<>>
    ELSE LET k == CHOOSE x \in keys : \A y \in keys : x <= y
         IN  <<[key |-> k, value |-> md[k]]>> \o DumpKeys(md, keys \ {k})

\* a dump that leaves out the scripts that never ran
json_dumpRunOnly(md) == DumpKeys(md, {k \in DOMAIN md : md[k] # 0})

json_dump(md) == DumpKeys(md, DOMAIN md)

json_load(text) ==
    [k \in {text[i].key : i \in 1..Len(text)} |->
        LET i == CHOOSE i \in 1..Len(text) :
                    /\ text[i].key = k
                    /\ \A j \in (i + 1)..Len(text) : text[j].key # k
        IN  text[i].value]

\* a dict assignment that overwrites every value
SetItemEverywhere(md, key, value) ==
    [k \in DOMAIN md \cup {key} |-> value]

\* script_metadata[key] = value
SetItem(md, key, value) ==
    [k \in DOMAIN md \cup {key} |-> IF k = key THEN value ELSE md[k]]

\* script_metadata.get(key, 0)
GetOr0(md, key) == IF key \in DOMAIN md THEN md[key] ELSE 0

(***************************************************************************)
(* update_script_list (lines 459-560).                                     *)
(***************************************************************************)
Range(q) == {q[i] : i \in 1..Len(q)}

\* line 471: what os.listdir(SCRIPTS_DIR) may return, the entries in any order
listdir(dirs) ==
    LET entries == {n \in Names : dirs[n].exists}
    IN  {q \in [1..Cardinality(entries) -> entries] : Range(q) = entries}

\* lines 472-474 without lines 475-477: the keys of deleted scripts stay
UpdatedMetadataKeepingDeleted(md, scripts) ==
    [n \in Range(scripts) \cup DOMAIN md |-> IF n \in DOMAIN md THEN md[n] ELSE 0]

\* lines 472-477 with a new key set to 1, as if the script had been run
UpdatedMetadataAsRun(md, scripts) ==
    [n \in Range(scripts) |-> IF n \in DOMAIN md THEN md[n] ELSE 1]

\* lines 472-477: a key with 0 for each new script, no key for a deleted one
UpdatedMetadata(md, scripts) ==
    [n \in Range(scripts) |-> IF n \in DOMAIN md THEN md[n] ELSE 0]

\* the insertion of sorted(...) without reverse=True
RECURSIVE InsertAscending(_, _, _)
InsertAscending(sorted, x, md) ==
    IF sorted = <<>> THEN <<x>>
    ELSE IF GetOr0(md, x) < GetOr0(md, sorted[1]) THEN <<x>> \o sorted
    ELSE <<sorted[1]>> \o InsertAscending(Tail(sorted), x, md)

\* sorted(..., reverse=True) is stable: x goes after the elements whose key is
\* not smaller than its own
RECURSIVE InsertByLastRun(_, _, _)
InsertByLastRun(sorted, x, md) ==
    IF sorted = <<>> THEN <<x>>
    ELSE IF GetOr0(md, sorted[1]) < GetOr0(md, x) THEN <<x>> \o sorted
    ELSE <<sorted[1]>> \o InsertByLastRun(Tail(sorted), x, md)

\* line 481
RECURSIVE SortedScripts(_, _)
SortedScripts(scripts, md) ==
    IF scripts = <<>> THEN <<>>
    ELSE InsertByLastRun(SortedScripts(SubSeq(scripts, 1, Len(scripts) - 1), md),
                         scripts[Len(scripts)], md)

\* time.strftime("%Y-%m-%d %H:%M:%S", time.localtime(t))
strftime(t) == [text |-> "%Y-%m-%d %H:%M:%S", secs |-> t]

\* lines 493-497
LastRunLabel(md, script) ==
    IF md[script] # 0 THEN strftime(md[script]) ELSE [text |-> "Never", secs |-> 0]

\* lines 484-560: one row per script, in sorted order
RowsOf(sorted_scripts, md) ==
    [i \in 1..Len(sorted_scripts) |->
        [name |-> sorted_scripts[i], last_run |-> LastRunLabel(md, sorted_scripts[i])]]

\* lines 460-463 destroy every widget of the list, the Run buttons with it: a
\* thread or a queued callback that holds one holds a destroyed widget
DestroyedIn(ths) == [t \in DOMAIN ths |-> [ths[t] EXCEPT !.stale = ths[t].button]]

DestroyedInQueue(q) == [i \in 1..Len(q) |-> [q[i] EXCEPT !.stale = TRUE]]

\* update_script_list, run when the disk holds `dirs`, the dict is `md`, and
\* the threads and queued callbacks are `ths` and `q`
update_script_list(dirs, md, ths, q) ==
    \E scripts \in listdir(dirs) :
    LET new_md == UpdatedMetadata(md, scripts)
        sorted_scripts == SortedScripts(scripts, new_md)
    IN  /\ script_metadata' = new_md
        /\ metadata_file' = FileWith(json_dump(new_md))
        /\ rows' = RowsOf(sorted_scripts, new_md)
        /\ run_buttons' = [n \in Range(scripts) |-> "normal"]
        /\ threads' = DestroyedIn(ths)
        /\ afterq' = DestroyedInQueue(q)


(***************************************************************************)
(* Background threads (setup_venv.run_setup, rebuild_venv.run_rebuild).    *)
(* A thread is at `pc`; `button` says it was given a Run button, `stale`   *)
(* that the button has been destroyed since; errors counts the error       *)
(* dialogs it has scheduled, guidance says it scheduled install_pyenv,     *)
(* did lists the external commands and dialogs it has gone through.        *)
(***************************************************************************)
Slots == 1..MaxThreads

IdleThread ==
    [pc |-> "idle", script |-> 0, version |-> <<>>, button |-> FALSE,
     stale |-> FALSE, errors |-> 0, guidance |-> FALSE, did |-> {}]

NewThread(entry, script_name, python_version_input, run_button) ==
    [pc |-> entry, script |-> script_name, version |-> python_version_input,
     button |-> run_button, stale |-> FALSE, errors |-> 0, guidance |-> FALSE,
     did |-> {}]

\* a slot is free once its thread has ended and the callbacks it queued have run
FreeSlots(ths, q) ==
    {t \in Slots : ths[t].pc \in {"idle", "done"} /\ \A i \in 1..Len(q) : q[i].by # t}

\* threading.Thread(target=...).start(): the thread takes the first free slot
Started(ths, q, th) ==
    LET t == CHOOSE x \in FreeSlots(ths, q) : \A y \in FreeSlots(ths, q) : x <= y
    IN  [ths EXCEPT ![t] = th]

\* the threads at work on a script's environment
ActiveOn(ths, script_name) ==
    {t \in Slots : ths[t].script = script_name /\ ths[t].pc \notin {"idle", "done"}}

(***************************************************************************)
(* What the user types.                                                    *)
(***************************************************************************)
\* the answer to a cancelled or empty askstring prompt
NoName == 0

NoVersion == <<>>

\* answers to the "Python Version" prompts
VersionInputs == {P_3, P_python3}

\* what is typed into the script box of the add-script window
ScriptTexts == {<<>>, <<" ", "\n">>, <<"x", "\n">>}

\* what is typed into a requirements box, as the packages it names
ReqContents == SUBSET Packages

\* lines 779-781: strip, then end with a newline
WithNewline(text) ==
    LET stripped == Strip(text)
    IN  IF EndsWith(stripped, <<"\n">>) THEN stripped ELSE stripped \o <<"\n">>

\* os.makedirs(path, exist_ok=True) of a script directory
makedirs(dirs, script_name) ==
    IF dirs[script_name].exists THEN dirs ELSE [dirs EXCEPT ![script_name] = EmptyDir]

\* an os.rmdir that removes nothing
rmdirSkipped(dirs, script_name) == dirs

\* os.rmdir of a script directory (the callers remove one they found or made empty)
rmdir(dirs, script_name) == [dirs EXCEPT ![script_name] = NoDir]

\* the history after a handler has left the scripts directory as `dirs`: a
\* directory that is gone has no history, one that is made starts without
StillThere(history, dirs) == {n \in history : dirs[n].exists}

Done(operation, script_name, how) ==
    [op |-> operation, name |-> script_name, end |-> how, env |-> NoEnv, busy |-> FALSE]

\* no modal dialog is open: the user can click
NoDialog == [op |-> "none", name |-> NoName]

uiVars == <<content_windows, req_windows, status, dialog>>

diskVars == <<scripts_dir, envs_dir, archived_scripts, archived_envs>>

listVars == <<script_metadata, metadata_file, rows, run_buttons>>

threadVars == <<threads, afterq>>

constVars == <<system, pyenv, prefix, latest>>

(***************************************************************************)
(* Start of the program (lines 16-31, 1006-1047) on a BASE_DIR that holds  *)
(* the script directories `dirs` and the metadata file `file`: the dict is *)
(* loaded from the file, and update_script_list runs once (line 1047).     *)
(***************************************************************************)
LoadedMetadata(file) == IF file.exists THEN json_load(file.text) ELSE <<>>

StartOn(dirs, envs, file) ==
    \E scripts \in listdir(dirs) :
    LET new_md == UpdatedMetadata(LoadedMetadata(file), scripts)
    IN  /\ scripts_dir = dirs
        /\ envs_dir = envs
        /\ archived_scripts = [n \in Names |-> 0]
        /\ archived_envs = [n \in Names |-> 0]
        /\ script_metadata = new_md
        /\ metadata_file = FileWith(json_dump(new_md))
        /\ now = 1
        /\ rows = RowsOf(SortedScripts(scripts, new_md), new_md)
        /\ run_buttons = [n \in Range(scripts) |-> "normal"]
        /\ content_windows = {}
        /\ req_windows = {}
        /\ status = "Status"
        /\ dialog = NoDialog
        /\ threads = [t \in Slots |-> IdleThread]
        /\ afterq = <<>>
        /\ last = Done("startup", NoName, "started")
        /\ prefix = <<>>
        /\ latest = NoCall
        /\ ran = {}

\* the lines a working pyenv prints in the specifications that run setup threads
ListedVersions == <<L_3_9_1, L_3_10_0, L_3_12_dev>>

PyenvOk == [status |-> "ok", lines |-> ListedVersions]

PyenvMissing == [status |-> "missing", lines |-> <<>>]

\* a first start, on an empty BASE_DIR
FreshDisk == [n \in Names |-> NoDir]

NoEnvs == [n \in Names |-> NoEnv]

\* time passes
Tick ==
    /\ now < MaxTime
    /\ now' = now + 1
    /\ last' = Done("tick", NoName, "")
    /\ UNCHANGED <<uiVars, diskVars, listVars, threadVars, constVars, ran>>

(***************************************************************************)
(* add_script up to the content window (lines 759-776, 822-850).           *)
(***************************************************************************)
AddScript(script_name, python_version) ==
    /\ dialog = NoDialog
    /\ IF script_name = NoName
       THEN /\ last' = Done("add_script", script_name, "name prompt")
            /\ UNCHANGED <<scripts_dir, content_windows>>
       ELSE IF scripts_dir[script_name].exists
       THEN /\ last' = Done("add_script", script_name, "already exists")
            /\ UNCHANGED <<scripts_dir, content_windows>>
       ELSE IF python_version = NoVersion
       THEN \* os.makedirs, then os.rmdir of the directory just made
            /\ last' = Done("add_script", script_name, "version required")
            /\ scripts_dir' = rmdir(makedirs(scripts_dir, script_name), script_name)
            /\ UNCHANGED content_windows
       ELSE /\ last' = Done("add_script", script_name, "window")
            /\ scripts_dir' = makedirs(scripts_dir, script_name)
            /\ content_windows' = content_windows \cup
                   {[name |-> script_name, version |-> python_version]}
    /\ ran' = StillThere(ran, scripts_dir')
    /\ UNCHANGED <<envs_dir, archived_scripts, archived_envs, listVars, threadVars,
                   req_windows, status, dialog, now, constVars>>

(***************************************************************************)
(* add_script.save_inputs (lines 778-820), the Save button of window w.    *)
(***************************************************************************)
SaveInputs(w, text, requirements) ==
    /\ dialog = NoDialog
    /\ w \in content_windows
    /\ FreeSlots(threads, afterq) # {}
    /\ LET script_content == WithNewline(text)
           dir == scripts_dir[w.name]
       IN  IF script_content = <<>>
           THEN \* lines 792-796
                /\ last' = Done("save_inputs", w.name, "content empty")
                /\ scripts_dir' = rmdir(scripts_dir, w.name)
                /\ content_windows' = content_windows \ {w}
                /\ UNCHANGED <<listVars, threadVars>>
           ELSE IF ~dir.exists
           THEN \* open() raises FileNotFoundError: the callback ends there
                /\ last' = Done("save_inputs", w.name, "exception")
                /\ UNCHANGED <<scripts_dir, content_windows, listVars, threadVars>>
           ELSE /\ last' = Done("save_inputs", w.name, "saved")
                /\ scripts_dir' = [scripts_dir EXCEPT ![w.name] =
                       [exists |-> TRUE, files |-> FileNames, req |-> requirements]]
                /\ update_script_list(scripts_dir',
                       script_metadata,
                       Started(threads, afterq, NewThread("setup", w.name, w.version, FALSE)),
                       afterq)
                /\ content_windows' = content_windows \ {w}
    /\ ran' = StillThere(ran, scripts_dir')
    /\ UNCHANGED <<envs_dir, archived_scripts, archived_envs, req_windows, status,
                   dialog, now, constVars>>

(***************************************************************************)
(* The "Refresh Script List" button (line 1029).                           *)
(***************************************************************************)
Refresh ==
    /\ dialog = NoDialog
    /\ update_script_list(scripts_dir, script_metadata, threads, afterq)
    /\ last' = Done("update_script_list", NoName, "refreshed")
    /\ UNCHANGED <<uiVars, diskVars, now, constVars, ran>>

(***************************************************************************)
(* run_script (lines 713-755), the Run button of a row.                    *)
(***************************************************************************)
RunScript(script_name) ==
    /\ dialog = NoDialog
    /\ script_name \in DOMAIN run_buttons
    /\ run_buttons[script_name] = "normal"
    /\ script_metadata' = SetItem(script_metadata, script_name, now)
    /\ metadata_file' = FileWith(json_dump(script_metadata'))
    /\ last' =
         IF "main.py" \notin scripts_dir[script_name].files
         THEN Done("run_script", script_name, "Script not found!")
         ELSE IF system \in {"Windows", "Darwin", "Linux"}
         THEN [op |-> "run_script", name |-> script_name, end |-> "launched",
               env |-> envs_dir[script_name],
               busy |-> ActiveOn(threads, script_name) # {}]
         ELSE Done("run_script", script_name, "Unsupported operating system!")
    /\ ran' = StillThere(ran \cup {script_name}, scripts_dir)
    /\ UNCHANGED <<uiVars, diskVars, rows, run_buttons, threadVars, now, constVars>>


(***************************************************************************)
(* archive_script (lines 680-710), "Archive Script" in a row's menu.       *)
(* shutil.move(src, dst) renames src to dst, or into dst when dst is a     *)
(* directory, and raises when dst/<name> is there already; archived[n]     *)
(* counts that nesting (0: no directory, 1: the directory, 2: a directory  *)
(* with <name> inside it).  oserror names the move, if any, that the       *)
(* operating system refuses (a file in use, a permission).                 *)
(***************************************************************************)
OsErrors == {"none", "script", "env"}

MoveRaises(level, refused) == refused \/ level = 2

\* the archive directory after a move into it, or after makedirs(exist_ok=True)
AfterMove(level) == level + 1

AfterMakedirs(level) == IF level = 0 THEN 1 ELSE level

\* lines 682-706 and 709-710: the moves, then the "Archived" dialog, in which
\* the handler waits, or the "Failed to archive" one, after which it returns
ArchiveScript(script_name, oserror) ==
    /\ dialog = NoDialog
    /\ script_name \in DOMAIN run_buttons
    /\ LET script_there == scripts_dir[script_name].exists
           env_there == envs_dir[script_name].exists
           script_fails == script_there /\
                           MoveRaises(archived_scripts[script_name], oserror = "script")
           env_fails == env_there /\
                        MoveRaises(archived_envs[script_name], oserror = "env")
       IN  /\ IF script_fails
              THEN UNCHANGED <<scripts_dir, archived_scripts>>
              ELSE /\ scripts_dir' = [scripts_dir EXCEPT ![script_name] = NoDir]
                   /\ archived_scripts' = [archived_scripts EXCEPT ![script_name] =
                          IF script_there THEN AfterMove(@) ELSE AfterMakedirs(@)]
           /\ IF script_fails \/ env_fails
              THEN UNCHANGED <<envs_dir, archived_envs>>
              ELSE /\ envs_dir' = [envs_dir EXCEPT ![script_name] = NoEnv]
                   /\ archived_envs' = [archived_envs EXCEPT ![script_name] =
                          IF env_there THEN AfterMove(@) ELSE AfterMakedirs(@)]
           /\ IF script_fails \/ env_fails
              THEN /\ last' = Done("archive_script", script_name, "Failed to archive")
                   /\ UNCHANGED dialog
              ELSE /\ last' = Done("archive_script", script_name, "moved")
                   /\ dialog' = [op |-> "archive_script", name |-> script_name]
    /\ ran' = StillThere(ran, scripts_dir')
    /\ UNCHANGED <<listVars, threadVars, content_windows, req_windows, status, now,
                   constVars>>

\* lines 706-707: the user closes the "Archived" dialog, update_script_list runs
ArchiveDone ==
    /\ dialog.op = "archive_script"
    /\ dialog' = NoDialog
    /\ update_script_list(scripts_dir, script_metadata, threads, afterq)
    /\ last' = Done("archive_script", dialog.name, "Archived")
    /\ UNCHANGED <<diskVars, content_windows, req_windows, status, now, constVars, ran>>

(***************************************************************************)
(* rebuild_venv (lines 426-456), "Rebuild Env" in a row's menu.            *)
(***************************************************************************)
RebuildVenv(script_name, python_version) ==
    /\ dialog = NoDialog
    /\ script_name \in DOMAIN run_buttons
    /\ IF python_version = NoVersion
       THEN /\ last' = Done("rebuild_venv", script_name, "version required")
            /\ UNCHANGED threads
       ELSE /\ FreeSlots(threads, afterq) # {}
            /\ last' = Done("rebuild_venv", script_name, "started")
            /\ threads' = Started(threads, afterq,
                                  NewThread("rebuild", script_name, python_version, TRUE))
    /\ UNCHANGED <<uiVars, diskVars, listVars, afterq, now, constVars, ran>>

(***************************************************************************)
(* modify_requirements (lines 570-623) and its save_changes.               *)
(***************************************************************************)
ModifyRequirements(script_name) ==
    /\ dialog = NoDialog
    /\ script_name \in DOMAIN run_buttons
    /\ IF ~scripts_dir[script_name].exists
       THEN \* open() raises FileNotFoundError
            /\ last' = Done("modify_requirements", script_name, "exception")
            /\ UNCHANGED <<scripts_dir, req_windows>>
       ELSE /\ last' = Done("modify_requirements", script_name, "window")
            /\ scripts_dir' = [scripts_dir EXCEPT ![script_name].files =
                                   @ \cup {"requirements.txt"}]
            /\ req_windows' = req_windows \cup {script_name}
    /\ UNCHANGED <<envs_dir, archived_scripts, archived_envs, listVars, threadVars,
                   content_windows, status, dialog, now, constVars, ran>>

\* the default of setup_venv's python_version_input (line 183)
DefaultVersion == P_3

SaveChanges(script_name, new_content) ==
    /\ dialog = NoDialog
    /\ script_name \in req_windows
    /\ FreeSlots(threads, afterq) # {}
    /\ IF ~scripts_dir[script_name].exists
       THEN /\ last' = Done("save_changes", script_name, "exception")
            /\ UNCHANGED <<scripts_dir, req_windows, threads>>
       ELSE /\ last' = Done("save_changes", script_name, "saved")
            /\ scripts_dir' = [scripts_dir EXCEPT
                   ![script_name].files = @ \cup {"requirements.txt"},
                   ![script_name].req = new_content]
            /\ req_windows' = req_windows \ {script_name}
            /\ threads' = Started(threads, afterq,
                                  NewThread("setup", script_name, DefaultVersion, FALSE))
    /\ UNCHANGED <<envs_dir, archived_scripts, archived_envs, listVars, afterq,
                   content_windows, status, dialog, now, constVars, ran>>


(***************************************************************************)
(* get_pyenv_python_path (lines 66-104).  answer is what `pyenv which`     *)
(* does when pyenv runs: prints a path, prints nothing, or fails.          *)
(***************************************************************************)
WhichAnswers == {"path", "nothing", "nonzero"}

get_pyenv_python_path(sys, env, answer) ==
    LET run == PyenvRun(sys, env)
    IN  IF run = "FileNotFoundError"
        THEN Raise("FileNotFoundError", <<"pyenv is not installed", " or not in PATH.">>)
        ELSE IF run = "nonzero" \/ answer = "nonzero"
        THEN Raise("RuntimeError",
                   <<"Failed to locate pyenv-managed Python", "Command", "pyenv which python",
                     "returned non-zero exit status", "STDERR">>)
        ELSE IF answer = "nothing" THEN Return(<<>>)
        ELSE Return(<<"p", "y", "t", "h", "o", "n">>)

(***************************************************************************)
(* setup_venv.run_setup.handle_error (lines 195-203).                      *)
(***************************************************************************)
MissingPyenvPhrases == {"pyenv is not installed", "pyenv: command not found"}

handle_error(th, error_message) ==
    [th EXCEPT !.errors = @ + 1,
               !.guidance = @ \/ (Range(error_message) \cap MissingPyenvPhrases # {}),
               !.pc = "finally"]

Background == Done("background", NoName, "")

(***************************************************************************)
(* rebuild_venv.run_rebuild (lines 439-453).  The thread that setup_venv   *)
(* starts from it (line 276) is followed in the same slot.                 *)
(***************************************************************************)
RmtreeOutcomes == {"removed", "refused", "interrupted"}

RunRebuild(t, outcome) ==
    /\ threads[t].pc = "rebuild"
    /\ LET th == threads[t]
           env == envs_dir[th.script]
       IN  IF ~env.exists \/ outcome = "removed"
           THEN /\ envs_dir' = [envs_dir EXCEPT ![th.script] = NoEnv]
                /\ threads' = [threads EXCEPT ![t].pc = "setup"]
           ELSE \* shutil.rmtree raised: the dialog of lines 448-453
                /\ envs_dir' = [envs_dir EXCEPT ![th.script] =
                       IF outcome = "interrupted" THEN PartialEnv ELSE @]
                /\ threads' = [threads EXCEPT ![t].errors = @ + 1, ![t].pc = "done"]
    /\ last' = Background
    /\ UNCHANGED <<scripts_dir, archived_scripts, archived_envs, listVars, afterq,
                   uiVars, now, constVars, ran>>

(***************************************************************************)
(* setup_venv.run_setup (lines 189-273), one step per blocking call.       *)
(***************************************************************************)
ButtonEvent(t, th, state) ==
    [kind |-> state, script |-> th.script, stale |-> th.stale, by |-> t]

\* lines 190-193
SetupStart(t) ==
    /\ threads[t].pc = "setup"
    /\ afterq' = IF threads[t].button
                 THEN Append(afterq, ButtonEvent(t, threads[t], "disabled"))
                 ELSE afterq
    /\ status' = "Setting up virtual environment..."
    /\ threads' = [threads EXCEPT ![t].pc = "resolve"]
    /\ last' = Background
    /\ UNCHANGED <<diskVars, listVars, content_windows, req_windows, dialog, now,
                   constVars, ran>>

\* lines 205-213
Resolve(t) ==
    /\ threads[t].pc = "resolve"
    /\ \E python_version \in
           {get_latest_available_python_version(system, pyenv, threads[t].version)} :
           IF python_version.ok
           THEN /\ status' = "Using Python"
                /\ threads' = [threads EXCEPT ![t].pc = "install"]
           ELSE IF python_version.exc = "ValueError"
           THEN \* lines 209-211
                /\ threads' = [threads EXCEPT ![t].errors = @ + 1, ![t].pc = "finally"]
                /\ UNCHANGED status
           ELSE /\ threads' = [threads EXCEPT ![t] =
                                   handle_error(threads[t], python_version.msg)]
                /\ UNCHANGED status
    /\ last' = Background
    /\ UNCHANGED <<diskVars, listVars, afterq, content_windows, req_windows, dialog,
                   now, constVars, ran>>

\* lines 215-241: installed says what is_python_version_installed finds, ok
\* whether `pyenv install` succeeds
Install(t, installed, ok) ==
    /\ threads[t].pc = "install"
    /\ LET th == threads[t]
       IN  IF installed
           THEN /\ threads' = [threads EXCEPT ![t].pc = "which"]
                /\ UNCHANGED status
           ELSE /\ status' = "Installing Python via pyenv..."
                /\ threads' = [threads EXCEPT ![t] =
                       IF ok
                       THEN [th EXCEPT !.did = @ \cup {"pyenv install"}, !.pc = "which"]
                       ELSE handle_error([th EXCEPT !.did = @ \cup {"pyenv install"}],
                                         <<"Failed to install Python", "via pyenv.",
                                           "STDOUT", "STDERR">>)]
    /\ last' = Background
    /\ UNCHANGED <<diskVars, listVars, afterq, content_windows, req_windows, dialog,
                   now, constVars, ran>>

\* lines 243-248
Which(t, answer) ==
    /\ threads[t].pc = "which"
    /\ LET th == threads[t]
           python_executable == get_pyenv_python_path(system, pyenv, answer)
       IN  threads' = [threads EXCEPT ![t] =
               IF ~python_executable.ok THEN handle_error(th, python_executable.msg)
               ELSE IF python_executable.value = <<>>
               THEN handle_error(th, <<"Could not find Python">>)
               ELSE [th EXCEPT !.did = @ \cup {"creating dialog"}, !.pc = "venv"]]
    /\ last' = Background
    /\ UNCHANGED <<diskVars, listVars, afterq, uiVars, now, constVars, ran>>

\* lines 249-251: ok says whether `python -m venv` succeeds
CreateVenv(t, ok) ==
    /\ threads[t].pc = "venv"
    /\ LET th == threads[t]
       IN  IF envs_dir[th.script].exists
           THEN /\ threads' = [threads EXCEPT ![t].pc = "pip"]
                /\ UNCHANGED envs_dir
           ELSE IF ok
           THEN /\ threads' = [threads EXCEPT ![t].did = @ \cup {"venv"}, ![t].pc = "pip"]
                /\ envs_dir' = [envs_dir EXCEPT ![th.script] = NewEnv]
           ELSE /\ threads' = [threads EXCEPT ![t] =
                       handle_error([th EXCEPT !.did = @ \cup {"venv"}],
                                    <<"Command", "-m venv",
                                      "returned non-zero exit status">>)]
                /\ envs_dir' = [envs_dir EXCEPT ![th.script] = PartialEnv]
    /\ last' = Background
    /\ UNCHANGED <<scripts_dir, archived_scripts, archived_envs, listVars, afterq,
                   uiVars, now, constVars, ran>>

\* lines 253-265: ok says whether pip succeeds on a readable requirements file
PipInstall(t, ok) ==
    /\ threads[t].pc = "pip"
    /\ LET th == threads[t]
           env == envs_dir[th.script]
           dir == scripts_dir[th.script]
       IN  IF ~env.complete
           THEN \* no bin/pip to run: subprocess.run raises FileNotFoundError
                /\ threads' = [threads EXCEPT ![t] =
                       handle_error(th, <<"[Errno 2] No such file or directory: ", "pip">>)]
                /\ UNCHANGED envs_dir
           ELSE IF ok /\ "requirements.txt" \in dir.files
           THEN /\ envs_dir' = [envs_dir EXCEPT ![th.script].pkgs = @ \cup dir.req]
                /\ threads' = [threads EXCEPT
                       ![t].did = @ \cup {"pip", "success dialog"}, ![t].pc = "finally"]
           ELSE /\ threads' = [threads EXCEPT ![t] =
                       handle_error([th EXCEPT !.did = @ \cup {"pip"}],
                                    <<"Command", "pip install -r",
                                      "returned non-zero exit status">>)]
                /\ UNCHANGED envs_dir
    /\ last' = Background
    /\ UNCHANGED <<scripts_dir, archived_scripts, archived_envs, listVars, afterq,
                   uiVars, now, constVars, ran>>

\* lines 269-273
Finally(t) ==
    /\ threads[t].pc = "finally"
    /\ afterq' = IF threads[t].button
                 THEN Append(afterq, ButtonEvent(t, threads[t], "normal"))
                 ELSE afterq
    /\ status' = "Status"
    /\ threads' = [threads EXCEPT ![t].did = @ \cup {"reset_status"}, ![t].pc = "done"]
    /\ last' = Background
    /\ UNCHANGED <<diskVars, listVars, content_windows, req_windows, dialog, now,
                   constVars, ran>>

(***************************************************************************)
(* The Tk main loop runs the oldest callback queued by root.after(0, ...): *)
(* run_button.config(state=...).  On a destroyed button it raises          *)
(* TclError, which the main loop reports and survives.                     *)
(***************************************************************************)
Pump ==
    /\ afterq # <<>>
    /\ LET e == Head(afterq)
       IN  IF e.stale
           THEN /\ threads' = [threads EXCEPT ![e.by].did = @ \cup {"TclError"}]
                /\ UNCHANGED run_buttons
           ELSE /\ threads' = [threads EXCEPT ![e.by].did = @ \cup {e.kind}]
                /\ run_buttons' = [run_buttons EXCEPT ![e.script] = e.kind]
    /\ afterq' = Tail(afterq)
    /\ last' = Background
    /\ UNCHANGED <<diskVars, script_metadata, metadata_file, rows, uiVars, now, constVars, ran>>

\* a thread that has ended, and whose callbacks have run, is forgotten
Reap(t) ==
    /\ threads[t].pc = "done"
    /\ t \in FreeSlots(threads, afterq)
    /\ threads' = [threads EXCEPT ![t] = IdleThread]
    /\ last' = Background
    /\ UNCHANGED <<diskVars, listVars, afterq, uiVars, now, constVars, ran>>

(***************************************************************************)
(* The program is closed and started again (lines 25-31, 1044-1047): the   *)
(* process ends once its threads have, and the new one loads the file.     *)
(***************************************************************************)
Restart ==
    /\ dialog = NoDialog
    /\ \A t \in Slots : threads[t].pc \in {"idle", "done"}
    /\ update_script_list(scripts_dir, LoadedMetadata(metadata_file),
                          [t \in Slots |-> IdleThread], <<>>)
    /\ content_windows' = {}
    /\ req_windows' = {}
    /\ status' = "Status"
    /\ last' = Done("startup", NoName, "started")
    /\ UNCHANGED <<diskVars, dialog, now, constVars, ran>>

(***************************************************************************)
(* The whole program.                                                      *)
(***************************************************************************)
Handlers ==
    \/ \E n \in Names \cup {NoName}, v \in VersionInputs \cup {NoVersion} : AddScript(n, v)
    \/ \E w \in content_windows, text \in ScriptTexts, r \in ReqContents :
           SaveInputs(w, text, r)
    \/ Refresh
    \/ \E n \in Names : RunScript(n)
    \/ \E n \in Names, e \in OsErrors : ArchiveScript(n, e)
    \/ ArchiveDone
    \/ \E n \in Names, v \in VersionInputs \cup {NoVersion} : RebuildVenv(n, v)
    \/ \E n \in Names : ModifyRequirements(n)
    \/ \E n \in Names, r \in ReqContents : SaveChanges(n, r)
    \/ Restart

ThreadSteps ==
    \/ \E t \in Slots, o \in RmtreeOutcomes : RunRebuild(t, o)
    \/ \E t \in Slots : SetupStart(t)
    \/ \E t \in Slots : Resolve(t)
    \/ \E t \in Slots, installed \in BOOLEAN, ok \in BOOLEAN : Install(t, installed, ok)
    \/ \E t \in Slots, a \in WhichAnswers : Which(t, a)
    \/ \E t \in Slots, ok \in BOOLEAN : CreateVenv(t, ok)
    \/ \E t \in Slots, ok \in BOOLEAN : PipInstall(t, ok)
    \/ \E t \in Slots : Finally(t)
    \/ \E t \in Slots : Reap(t)

Next == Handlers \/ ThreadSteps \/ Pump \/ Tick

\* the program on a machine with pyenv, from its first start
Program ==
    /\ system \in Systems
    /\ pyenv = PyenvOk
    /\ StartOn(FreshDisk, NoEnvs, NoFile)
    /\ [][Next]_vars

(***************************************************************************)
(* The specifications checked are restrictions of Program to the handlers  *)
(* and inputs a group of properties is about; TLC cannot enumerate Program *)
(* itself.                                                                 *)
(*                                                                         *)
(* Spec: scripts, the metadata dict and file, the list.  The machine has   *)
(* no pyenv, so every setup thread ends at its first pyenv call and the    *)
(* environments directory stays empty.                                     *)
(***************************************************************************)
\* the scripts whose names are typed in the specifications of handler sequences
TwoNames == {1, 2}

\* no background thread is running and no callback is queued
Quiet == afterq = <<>> /\ \A t \in Slots : threads[t].pc = "idle"

Init ==
    /\ system = "Linux"
    /\ pyenv = PyenvMissing
    /\ StartOn(FreshDisk, NoEnvs, NoFile)

\* The setup threads touch neither the scripts directory nor the metadata:
\* each is followed to its end before the next handler runs.
NextList ==
    \/ Quiet /\ \E n \in TwoNames \cup {NoName}, v \in {P_3, NoVersion} : AddScript(n, v)
    \/ Quiet /\ \E w \in content_windows, text \in ScriptTexts : SaveInputs(w, text, {})
    \/ Quiet /\ Refresh
    \/ Quiet /\ \E n \in TwoNames : RunScript(n)
    \/ Quiet /\ \E n \in TwoNames, e \in {"none", "script"} : ArchiveScript(n, e)
    \/ ArchiveDone
    \/ Quiet /\ Restart
    \/ Quiet /\ Tick
    \/ \E t \in Slots : SetupStart(t)
    \/ \E t \in Slots : Resolve(t)
    \/ \E t \in Slots : Finally(t)
    \/ \E t \in Slots : Reap(t)

Spec == Init /\ [][NextList]_vars

(***************************************************************************)
(* SpecList: the program is started on a BASE_DIR left by earlier runs,    *)
(* any of the scripts there, with their files or without, and any metadata *)
(* file; scripts are run and the list is refreshed.                        *)
(***************************************************************************)
FullDir == [exists |-> TRUE, files |-> FileNames, req |-> {}]

\* last-run times an earlier run can have saved
EarlierTimes == {0, 1}

MetadataFiles ==
    {NoFile} \cup
    {FileWith(json_dump(md)) : md \in UNION {[D -> EarlierTimes] : D \in SUBSET Names}}

InitList ==
    /\ system \in {"Linux", "Other"}
    /\ pyenv = PyenvMissing
    /\ \E dirs \in [Names -> {NoDir, EmptyDir, FullDir}], file \in MetadataFiles :
           StartOn(dirs, NoEnvs, file)

NextRuns ==
    \/ \E n \in Names : RunScript(n)
    \/ Refresh
    \/ Restart
    \/ Tick

SpecList == InitList /\ [][NextRuns]_vars

(***************************************************************************)
(* SpecEnv: one script and its environment on a machine with pyenv.  The   *)
(* script was added by an earlier run of the program, which may have built *)
(* its environment; the user rebuilds, edits the requirements, runs and    *)
(* archives while a background thread goes on, in every interleaving; a    *)
(* new thread is started once the one before has ended.                    *)
(***************************************************************************)
TheScript == {1}

\* an environment in which pip has installed the packages of `requirements`
BuiltEnv(requirements) == [exists |-> TRUE, complete |-> TRUE, pkgs |-> requirements]

InitEnv ==
    /\ system = "Linux"
    /\ pyenv = PyenvOk
    /\ \E r \in ReqContents, built \in BOOLEAN :
           StartOn([n \in Names |-> IF n \in TheScript
                                    THEN [exists |-> TRUE, files |-> FileNames, req |-> r]
                                    ELSE NoDir],
                   [n \in Names |-> IF n \in TheScript /\ built THEN BuiltEnv(r) ELSE NoEnv],
                   NoFile)

NextEnv ==
    \/ Quiet /\ \E n \in TheScript, v \in {P_3, NoVersion} : RebuildVenv(n, v)
    \/ \E n \in TheScript : ModifyRequirements(n)
    \/ Quiet /\ \E n \in TheScript, r \in ReqContents : SaveChanges(n, r)
    \/ \E n \in TheScript : RunScript(n)
    \/ \E n \in TheScript, e \in OsErrors : ArchiveScript(n, e)
    \/ ArchiveDone
    \/ Refresh
    \/ \E t \in Slots, o \in RmtreeOutcomes : RunRebuild(t, o)
    \/ \E t \in Slots : SetupStart(t)
    \/ \E t \in Slots : Resolve(t)
    \/ \E t \in Slots, installed \in BOOLEAN, ok \in BOOLEAN : Install(t, installed, ok)
    \/ \E t \in Slots, a \in WhichAnswers : Which(t, a)
    \/ \E t \in Slots, ok \in BOOLEAN : CreateVenv(t, ok)
    \/ \E t \in Slots, ok \in BOOLEAN : PipInstall(t, ok)
    \/ \E t \in Slots : Finally(t)
    \/ Pump
    \/ \E t \in Slots : Reap(t)

SpecEnv == InitEnv /\ [][NextEnv]_vars

(***************************************************************************)
(* SpecLive: environments are rebuilt and the list is refreshed, and what  *)
(* has been started goes on.  A thread that can take its next step takes   *)
(* it: the external process it waits for ends and the dialog it shows is   *)
(* closed; the Tk main loop runs the callbacks queued with root.after.     *)
(***************************************************************************)
\* the steps of a setup thread other than Resolve
SetupStep ==
    \/ \E t \in Slots, o \in RmtreeOutcomes : RunRebuild(t, o)
    \/ \E t \in Slots : SetupStart(t)
    \/ \E t \in Slots, installed \in BOOLEAN, ok \in BOOLEAN : Install(t, installed, ok)
    \/ \E t \in Slots, a \in WhichAnswers : Which(t, a)
    \/ \E t \in Slots, ok \in BOOLEAN : CreateVenv(t, ok)
    \/ \E t \in Slots, ok \in BOOLEAN : PipInstall(t, ok)
    \/ \E t \in Slots : Finally(t)

NextLive ==
    \/ Quiet /\ \E n \in TheScript : RebuildVenv(n, P_3)
    \/ Refresh
    \/ SetupStep
    \/ \E t \in Slots : Resolve(t)
    \/ Pump
    \/ \E t \in Slots : Reap(t)

\* Resolve(t) is enabled exactly while thread t is at "resolve", and takes it
\* away from there: its weak fairness is that t is not at "resolve" for ever.
Fairness ==
    /\ WF_vars(SetupStep)
    /\ WF_vars(Pump)
    /\ \A t \in Slots : []<>(threads[t].pc # "resolve")

SpecLive == InitEnv /\ [][NextLive]_vars /\ Fairness

(***************************************************************************)
(* SpecRace: the same script, the user not waiting: environments are       *)
(* rebuilt and requirements saved while earlier threads are still running. *)
(***************************************************************************)
NextRace ==
    \/ \E n \in TheScript : RebuildVenv(n, P_3)
    \/ \E n \in TheScript : ModifyRequirements(n)
    \/ \E n \in TheScript, r \in ReqContents : SaveChanges(n, r)
    \/ \E t \in Slots, o \in RmtreeOutcomes : RunRebuild(t, o)
    \/ \E t \in Slots : SetupStart(t)
    \/ \E t \in Slots : Resolve(t)
    \/ \E t \in Slots, installed \in BOOLEAN, ok \in BOOLEAN : Install(t, installed, ok)
    \/ \E t \in Slots, a \in WhichAnswers : Which(t, a)
    \/ \E t \in Slots, ok \in BOOLEAN : CreateVenv(t, ok)
    \/ \E t \in Slots, ok \in BOOLEAN : PipInstall(t, ok)
    \/ \E t \in Slots : Finally(t)
    \/ Pump
    \/ \E t \in Slots : Reap(t)

SpecRace == InitEnv /\ [][NextRace]_vars

(***************************************************************************)
(* SpecSetup: one script, one setup at a time, on machines whose pyenv     *)
(* lists stable versions, only pre-releases, or nothing; the user answers  *)
(* the version prompt with "3", with "python3" or not at all.              *)
(***************************************************************************)
PreReleasesOnly == <<L_3_11_0rc1, L_3_12_dev>>

SetupPyenvs ==
    {[status |-> "ok", lines |-> ls] : ls \in {ListedVersions, PreReleasesOnly, <<>>}}

InitSetup ==
    /\ system = "Linux"
    /\ pyenv \in SetupPyenvs
    /\ \E built \in BOOLEAN :
           StartOn([n \in Names |-> IF n \in TheScript THEN FullDir ELSE NoDir],
                   [n \in Names |-> IF n \in TheScript /\ built THEN NewEnv ELSE NoEnv],
                   NoFile)

NextSetup ==
    \/ Quiet /\ \E n \in TheScript, v \in VersionInputs \cup {NoVersion} : RebuildVenv(n, v)
    \/ \E n \in TheScript : ModifyRequirements(n)
    \/ Quiet /\ \E n \in TheScript, r \in ReqContents : SaveChanges(n, r)
    \/ \E t \in Slots, o \in RmtreeOutcomes : RunRebuild(t, o)
    \/ \E t \in Slots : SetupStart(t)
    \/ \E t \in Slots : Resolve(t)
    \/ \E t \in Slots, installed \in BOOLEAN, ok \in BOOLEAN : Install(t, installed, ok)
    \/ \E t \in Slots, a \in WhichAnswers : Which(t, a)
    \/ \E t \in Slots, ok \in BOOLEAN : CreateVenv(t, ok)
    \/ \E t \in Slots, ok \in BOOLEAN : PipInstall(t, ok)
    \/ \E t \in Slots : Finally(t)
    \/ Pump
    \/ \E t \in Slots : Reap(t)

SpecSetup == InitSetup /\ [][NextSetup]_vars

(***************************************************************************)
(* SpecCycle: one script on a machine with pyenv is set up, run, archived  *)
(* and added again under its name, one setup at a time; a move into the    *)
(* archive may be refused by the operating system.                         *)
(***************************************************************************)
NextCycle ==
    \/ Quiet /\ \E n \in TheScript, v \in {P_3, NoVersion} : AddScript(n, v)
    \/ Quiet /\ \E w \in content_windows, text \in ScriptTexts : SaveInputs(w, text, {})
    \/ \E n \in TheScript : RunScript(n)
    \/ \E n \in TheScript, e \in OsErrors : ArchiveScript(n, e)
    \/ ArchiveDone
    \/ Refresh
    \/ Tick
    \/ \E t \in Slots : SetupStart(t)
    \/ \E t \in Slots : Resolve(t)
    \/ \E t \in Slots, installed \in BOOLEAN, ok \in BOOLEAN : Install(t, installed, ok)
    \/ \E t \in Slots, a \in WhichAnswers : Which(t, a)
    \/ \E t \in Slots, ok \in BOOLEAN : CreateVenv(t, ok)
    \/ \E t \in Slots, ok \in BOOLEAN : PipInstall(t, ok)
    \/ \E t \in Slots : Finally(t)
    \/ \E t \in Slots : Reap(t)

SpecCycle == InitEnv /\ [][NextCycle]_vars

(***************************************************************************)
(* The version query on its own: every output of pyenv up to MaxLines      *)
(* lines, every prefix.                                                    *)
(***************************************************************************)
InitVersions ==
    /\ \/ /\ system = "Linux"
          /\ pyenv \in {[status |-> "ok", lines |-> ls] : ls \in SeqsUpTo(PyenvLines, MaxLines)}
       \/ /\ system \in Systems
          /\ pyenv \in {[status |-> st, lines |-> <<>>] : st \in {"missing", "failing"}}
    /\ prefix \in Prefixes
    /\ latest = NoCall
    /\ scripts_dir = FreshDisk
    /\ envs_dir = [n \in Names |-> NoEnv]
    /\ archived_scripts = [n \in Names |-> 0]
    /\ archived_envs = [n \in Names |-> 0]
    /\ script_metadata = <<>>
    /\ metadata_file = NoFile
    /\ now = 1
    /\ rows = <<>>
    /\ run_buttons = <<>>
    /\ content_windows = {}
    /\ req_windows = {}
    /\ status = "Status"
    /\ dialog = NoDialog
    /\ threads = [t \in Slots |-> IdleThread]
    /\ afterq = <<>>
    /\ last = Done("startup", NoName, "started")
    /\ ran = {}

QueryLatest ==
    /\ latest = NoCall
    /\ latest' = get_latest_available_python_version(system, pyenv, prefix)
    /\ UNCHANGED <<system, pyenv, prefix, diskVars, listVars, threadVars, uiVars, now,
                   last, ran>>

NextVersions == QueryLatest

SpecVersions == InitVersions /\ [][NextVersions]_vars

(***************************************************************************)
(* Properties.                                                             *)
(***************************************************************************)
\* how a handler that has just run update_script_list to its end is recorded
ListUpdates == {"refreshed", "saved", "Archived", "started"}

Entries(dirs) == {n \in Names : dirs[n].exists}

\* C1: immediately after update_script_list the keys of script_metadata are
\* exactly the entries of the scripts directory; a key that was not there
\* before has the value 0, a key that was keeps its value.
C1_KeysAreEntries ==
    [][last'.end \in ListUpdates =>
         /\ DOMAIN script_metadata' = Entries(scripts_dir')
         /\ \A n \in DOMAIN script_metadata' :
                script_metadata'[n] = IF n \in DOMAIN script_metadata
                                      THEN script_metadata[n] ELSE 0]_vars

\* an archive has taken a run script's key away and left the other script's
C1_Witness ==
    /\ last.op = "archive_script" /\ last.end = "Archived"
    /\ \E n \in DOMAIN script_metadata : script_metadata[n] # 0
    /\ last.name \notin DOMAIN script_metadata
    /\ archived_scripts[last.name] > 0

\* C2 as stated: over add, run, refresh and archive, a key appears only in the
\* run of that script, and disappears only when its directory is gone.
C2_CreatedByFirstRun ==
    [][\A n \in Names :
         /\ (n \notin DOMAIN script_metadata /\ n \in DOMAIN script_metadata') =>
                (last'.op = "run_script" /\ last'.name = n)
         /\ (n \in DOMAIN script_metadata /\ n \notin DOMAIN script_metadata') =>
                ~scripts_dir'[n].exists]_vars

\* C2 amended: a key appears only when update_script_list finds the script's
\* directory, with the value 0, and never in a run; a key disappears only when
\* update_script_list finds the directory gone.
C2_CreatedByListing ==
    [][\A n \in Names :
         /\ (n \notin DOMAIN script_metadata /\ n \in DOMAIN script_metadata') =>
                /\ last'.end \in ListUpdates
                /\ last'.op # "run_script"
                /\ scripts_dir'[n].exists
                /\ script_metadata'[n] = 0
         /\ (n \in DOMAIN script_metadata /\ n \notin DOMAIN script_metadata') =>
                /\ last'.end \in ListUpdates
                /\ ~scripts_dir'[n].exists]_vars

\* a script just added has its key, and has never been run
C2_Witness ==
    /\ last.op = "save_inputs" /\ last.end = "saved"
    /\ last.name \in DOMAIN script_metadata
    /\ script_metadata[last.name] = 0
    /\ \E n \in DOMAIN script_metadata : script_metadata[n] # 0

\* C3: run_script(s) sets script_metadata[s] to the current time and changes
\* no other key and no other value.
C3_RunSetsOneTimestamp ==
    [][last'.op = "run_script" =>
         /\ DOMAIN script_metadata' = DOMAIN script_metadata \cup {last'.name}
         /\ script_metadata'[last'.name] = now
         /\ \A n \in DOMAIN script_metadata \ {last'.name} :
                script_metadata'[n] = script_metadata[n]]_vars

\* a script has been run while another one holds an older, non-zero time
C3_Witness ==
    /\ last.op = "run_script"
    /\ script_metadata[last.name] = now
    /\ \E n \in DOMAIN script_metadata :
           n # last.name /\ script_metadata[n] # 0 /\ script_metadata[n] < now

\* C4: the rows update_script_list lays out are in non-increasing order of
\* last-run time, so no never-run script stands above a script that has been run.
C4_RowsByLastRun ==
    last.end \in ListUpdates =>
        /\ {rows[i].name : i \in 1..Len(rows)} = DOMAIN script_metadata
        /\ \A i, j \in 1..Len(rows) :
               i < j => script_metadata[rows[i].name] >= script_metadata[rows[j].name]
        /\ \A i, j \in 1..Len(rows) :
               (rows[i].last_run.text = "Never" /\ rows[j].last_run.text # "Never") => j < i

\* a refreshed list with a script that was run above one that never was, the
\* directory listing having named them the other way round
C4_Witness ==
    /\ last.end = "refreshed"
    /\ Len(rows) >= 2
    /\ rows[1].last_run.text # "Never"
    /\ rows[Len(rows)].last_run.text = "Never"
    /\ rows[1].name > rows[Len(rows)].name

\* the versions the claim compares the result with
StableMatches ==
    {v \in Range(CleanVersions(pyenv.lines)) : StartsWith(v, prefix) /\ IsStable(v)}

\* C5: what get_latest_available_python_version returns starts with the
\* prefix, is neither a pre-release nor a dev release, and is not below any
\* stable available version that starts with the prefix; it returns whenever
\* there is such a version.
C5_LatestStableMatch ==
    latest # NoCall =>
        /\ latest.ok <=> (pyenv.status = "ok" /\ StableMatches # {})
        /\ latest.ok =>
               /\ latest.value \in StableMatches
               /\ ~is_prerelease(version_parse(latest.value))
               /\ ~is_devrelease(version_parse(latest.value))
               /\ \A v \in StableMatches :
                      ~VersionLess(latest.value, v)

\* the call has chosen among two stable matches, listed newest first, and a
\* pre-release that is newer than both
C5_Witness ==
    /\ latest # NoCall /\ latest.ok
    /\ \E v \in StableMatches : VersionLess(v, latest.value)
    /\ \E i \in 1..Len(pyenv.lines) :
           /\ StartsWith(Strip(pyenv.lines[i]), prefix)
           /\ ~IsStable(Strip(pyenv.lines[i]))
    /\ Strip(pyenv.lines[1]) = latest.value

\* how add_script ends without opening its content window
AddScriptRefusals == {"name prompt", "already exists", "version required"}

C6_ButtonReenabled ==
    \A t \in Slots :
        (threads[t].button /\ threads[t].pc = "setup") ~>
            ("normal" \in threads[t].did /\ "reset_status" \in threads[t].did)

\* a setup has ended, its status reset, and the callback that was to re-enable
\* its button has failed on the destroyed widget
C6_Witness ==
    \E t \in Slots :
        /\ threads[t].button /\ threads[t].pc = "done"
        /\ "reset_status" \in threads[t].did
        /\ "TclError" \in threads[t].did
        /\ "normal" \notin threads[t].did
        /\ afterq = <<>>

\* the setup started by save_changes has ended with its "Success" dialog
SavedAndSetUp(t) ==
    /\ ~threads[t].button
    /\ threads[t].pc = "finally"
    /\ "success dialog" \in threads[t].did

\* C7 as stated: after a successful save in the Modify Requirements window
\* the environment is a new one (python -m venv has run), built from the
\* requirements just saved.
C7_SaveRebuildsEnvironment ==
    \A t \in Slots :
        SavedAndSetUp(t) =>
            /\ "venv" \in threads[t].did
            /\ envs_dir[threads[t].script].pkgs = scripts_dir[threads[t].script].req

\* a save has succeeded on the environment that was there, which still holds
\* a package that the saved requirements no longer name
C7_Witness ==
    \E t \in Slots :
        /\ SavedAndSetUp(t)
        /\ "venv" \notin threads[t].did
        /\ scripts_dir[threads[t].script].req = {}
        /\ envs_dir[threads[t].script].pkgs # {}

\* C9 as stated: when archive_script(s) has reported "Archived" and returned,
\* s has no directory under scripts nor under environments, has one under
\* archived_scripts and archived_environments, and is neither in the metadata
\* nor in the list.
C9_ArchivedEverywhere ==
    (last.op = "archive_script" /\ last.end = "Archived") =>
        /\ ~scripts_dir[last.name].exists
        /\ ~envs_dir[last.name].exists
        /\ archived_scripts[last.name] >= 1
        /\ archived_envs[last.name] >= 1
        /\ last.name \notin DOMAIN script_metadata
        /\ \A i \in 1..Len(rows) : rows[i].name # last.name

\* the archive has returned, and a setup thread has built an environment for
\* the archived script meanwhile
C9_Witness ==
    /\ last.op = "archive_script" /\ last.end = "Archived"
    /\ ~scripts_dir[last.name].exists
    /\ archived_envs[last.name] >= 1
    /\ envs_dir[last.name] = NewEnv

\* the threads that have found or made the environment of a script and have
\* still to run pip in it
InEnvironment(script_name) ==
    {t \in Slots : threads[t].script = script_name /\ threads[t].pc = "pip"}

\* C10 as stated: no step of a background thread changes the metadata dict or
\* its file, and none changes the environment directory of a script while
\* another thread is at work in it.
C10_NoSharedState ==
    [][last' = Background =>
         /\ script_metadata' = script_metadata
         /\ metadata_file' = metadata_file
         /\ \A n \in Names :
                envs_dir'[n] # envs_dir[n] => \A t \in InEnvironment(n) : threads'[t].pc # "pip"]_vars

\* a setup thread is about to run pip in an environment that a rebuild thread
\* has removed and is about to create again
C10_Witness ==
    \E t, u \in Slots :
        /\ t # u
        /\ threads[t].script = threads[u].script
        /\ threads[t].pc = "pip" /\ ~threads[t].button
        /\ threads[u].pc = "venv" /\ threads[u].button
        /\ ~envs_dir[threads[t].script].exists

\* a setup_venv run of thread t has ended after an error dialog
SetupFailed(t) ==
    /\ threads[t].pc = "done"
    /\ "reset_status" \in threads[t].did
    /\ threads[t].errors > 0

\* C11 as stated: a setup that has failed has scheduled the pyenv guidance
\* window exactly when the pyenv executable cannot be found.
C11_GuidanceWhenPyenvMissing ==
    \A t \in Slots :
        SetupFailed(t) => (threads[t].guidance <=> pyenv.status = "missing")

\* on a machine without pyenv a setup has failed with its one error dialog,
\* and no guidance window
C11_Witness ==
    \E t \in Slots :
        /\ SetupFailed(t)
        /\ pyenv.status = "missing"
        /\ threads[t].errors = 1
        /\ ~threads[t].guidance
        /\ threads[t].did = {"reset_status"}

\* C12 as stated: a Save in the add-script window whose script box is empty
\* or holds only whitespace ends with "Script content cannot be empty!",
\* removes the script directory, closes the window, writes no file and
\* starts no setup thread.
C12_EmptyContentRefused ==
    [][\A w \in content_windows : \A text \in ScriptTexts :
           (Strip(text) = <<>> /\ SaveInputs(w, text, {})) =>
               /\ last'.end = "content empty"
               /\ ~scripts_dir'[w.name].exists
               /\ w \notin content_windows'
               /\ threads' = threads]_vars

\* the stable versions that pyenv lists and that start with what was typed
\* at the version prompt of thread t's setup
StableMatchesFor(t) ==
    {v \in Range(CleanVersions(pyenv.lines)) :
         StartsWith(v, threads[t].version) /\ IsStable(v)}

\* what a setup does after it has resolved a version
AfterResolve == {"pyenv install", "creating dialog", "venv", "pip", "success dialog"}

\* C13: a setup for which pyenv lists no stable version matching the prefix
\* never gets past the resolution of the version: it installs no Python,
\* creates no environment, runs no pip and shows no success dialog; it shows
\* one error dialog and ends, the status reset.
C13_NoMatchOneError ==
    \A t \in Slots :
        (threads[t].pc # "idle" /\ StableMatchesFor(t) = {}) =>
            /\ threads[t].pc \in {"rebuild", "setup", "resolve", "finally", "done"}
            /\ threads[t].did \cap AfterResolve = {}
            /\ threads[t].pc = "finally" => threads[t].errors = 1
            /\ "reset_status" \in threads[t].did => threads[t].errors = 1

\* pyenv lists only pre-releases of Python 3; a setup asked for "3" has
\* ended with one error dialog and nothing done
C13_Witness ==
    \E t \in Slots :
        /\ pyenv.lines = PreReleasesOnly
        /\ threads[t].version = P_3
        /\ threads[t].pc = "done"
        /\ threads[t].errors = 1
        /\ threads[t].did \subseteq {"reset_status", "disabled", "normal", "TclError"}
        /\ "reset_status" \in threads[t].did

\* update_script_list has just run: the rows are those it has made
ListShown ==
    \/ last.op = "startup"
    \/ last.op = "update_script_list"
    \/ last.op = "save_inputs" /\ last.end = "saved"
    \/ last.op = "archive_script" /\ last.end = "Archived"

\* C14 as stated: a row that update_script_list has just made reads "Never"
\* exactly when run_script has not been invoked for that name since the
\* script's current directory was created.
C14_NeverIffNotRun ==
    ListShown =>
        \A i \in 1..Len(rows) :
            rows[i].last_run.text = "Never" <=> rows[i].name \notin ran

\* a script saved a moment ago into a new directory is listed with a last
\* run, though nothing has run it there
C14_Witness ==
    /\ last.op = "save_inputs" /\ last.end = "saved"
    /\ \E i \in 1..Len(rows) :
           /\ rows[i].name = last.name
           /\ rows[i].last_run.text # "Never"
           /\ rows[i].name \notin ran
           /\ archived_scripts[rows[i].name] = 1
           /\ archived_envs[rows[i].name] = 0

\* C15: while no handler of the UI thread is at work, the metadata file is
\* there and loading it gives the dict script_metadata as it is in memory;
\* so a start of the program loads the map that was saved last.
C15_FileIsTheMap ==
    dialog = NoDialog =>
        /\ metadata_file.exists
        /\ json_load(metadata_file.text) = script_metadata

\* the program has been started again on a file that was saved after a run:
\* one script with a timestamp and one that never ran
C15_Witness ==
    /\ last.op = "startup"
    /\ dialog = NoDialog
    /\ \E n, m \in DOMAIN script_metadata :
           script_metadata[n] # 0 /\ script_metadata[m] = 0
    /\ json_load(metadata_file.text) = script_metadata

RunRefusals == {"Script not found!", "Unsupported operating system!"}

\* C16 as stated: a run_script call that ends with "Script not found!" or
\* "Unsupported operating system!" leaves the metadata dict and the
\* metadata file as they were.
C16_RefusedRunChangesNothing ==
    [][(last'.op = "run_script" /\ last'.end \in RunRefusals) =>
           /\ script_metadata' = script_metadata
           /\ metadata_file' = metadata_file]_vars

\* a run has ended with "Script not found!", and the script, whose row still
\* reads "Never", has the time of that call as its last run, in the dict and
\* in the file
C16_Witness ==
    /\ last.op = "run_script"
    /\ last.end = "Script not found!"
    /\ \E i \in 1..Len(rows) :
           rows[i].name = last.name /\ rows[i].last_run.text = "Never"
    /\ script_metadata[last.name] = now
    /\ json_load(metadata_file.text)[last.name] = now

\* C17 as stated: when run_script launches a terminal for a script, the
\* script's environment exists, was created completely, and no setup or
\* rebuild is at work on it.
C17_LaunchNeedsEnvironment ==
    (last.op = "run_script" /\ last.end = "launched") =>
        /\ last.env.exists
        /\ last.env.complete
        /\ ~last.busy

\* a terminal was launched for a script whose environment a rebuild had
\* removed a moment before, the new one not yet made
C17_Witness ==
    /\ last.op = "run_script"
    /\ last.end = "launched"
    /\ last.env = NoEnv
    /\ last.busy
    /\ \E t \in Slots : threads[t].script = last.name /\ threads[t].pc = "venv"

\* C18 as stated, for the failing end: an archive_script call that ends
\* with "Failed to archive script" leaves the script directory, the
\* environment directory, the metadata dict and the rows as they were.
C18_FailedArchiveChangesNothing ==
    [][(last'.op = "archive_script" /\ last'.end = "Failed to archive") =>
           /\ scripts_dir' = scripts_dir
           /\ envs_dir' = envs_dir
           /\ script_metadata' = script_metadata
           /\ rows' = rows]_vars

\* "Failed to archive script" was shown: the script directory is in the
\* archive, its environment is not, and the list and the dict still have
\* the script
C18_Witness ==
    /\ last.op = "archive_script"
    /\ last.end = "Failed to archive"
    /\ ~scripts_dir[last.name].exists
    /\ archived_scripts[last.name] = 1
    /\ envs_dir[last.name].exists
    /\ archived_envs[last.name] = 0
    /\ last.name \in DOMAIN script_metadata
    /\ \E i \in 1..Len(rows) : rows[i].name = last.name

=============================================================================
